---- MODULE Spec2Model ----
(***************************************************************************)
(* Catalog search of app/similarity.py: facet filtering                    *)
(* (filter_song_indices) composed with ranking by dot product              *)
(* (semantic_search), over the song list of data/songs.json and the vector *)
(* store of data/song_vectors.npy; and the facet helpers of app/facets.py  *)
(* (collect_facet_options, filter_songs) with similarity.py's              *)
(* get_facet_options.                                                      *)
(*                                                                         *)
(* A Python str is a sequence of one-character strings, so that strip()    *)
(* and comparison act on the characters.  A JSON value is a record         *)
(* [t, s, l, n]: t names the type, s is the text of a str, l the elements  *)
(* of a list (each element by its str() text), n the number.  A dict is a  *)
(* function from its keys to JSON values; an absent key is a key not in    *)
(* its DOMAIN.  Indices are 0-based as in the Python.                      *)
(***************************************************************************)
EXTENDS Integers, Sequences, FiniteSets, TLC

VARIABLES
    songs,          \* data/songs.json as load_songs returns it
    song_vectors,   \* data/song_vectors.npy: [exists, ndim, rows]
    pc,             \* "idle" | "done": no call in progress / a call has ended
    call,           \* the function called last
    filters,        \* argument: [t |-> "none"] or [t |-> "dict", d |-> dict]
    query,          \* argument: JSON null or str
    top_k,          \* argument: integer
    outcome,        \* "none" | "return" | "raise"
    error,          \* the exception raised, "" when none
    keep_idx,       \* filter_song_indices' value (semantic_search: its local)
    ranked,         \* semantic_search: the song_i of each loop iteration
    results,        \* semantic_search's returned list of records
    trace,          \* semantic_search: the steps executed, in order
    facet_options,  \* facets.collect_facet_options' returned dict
    kept_songs      \* facets.filter_songs' returned list of songs

vars == <<songs, song_vectors, pc, call, filters, query, top_k, outcome,
          error, keep_idx, ranked, results, trace, facet_options, kept_songs>>

(***************************************************************************)
(* Bounds of the model.                                                    *)
(***************************************************************************)
\* longest song list of the filter specification
MaxItems == 3
\* longest song list of the search specification
MaxSongs == 6

(***************************************************************************)
(* Python values.                                                          *)
(***************************************************************************)
Null == [t |-> "null", s |-> <<>>, l |-> <<>>, n |-> 0]

Str(x) == [t |-> "str", s |-> x, l |-> <<>>, n |-> 0]

List(xs) == [t |-> "list", s |-> <<>>, l |-> xs, n |-> 0]

Num(k) == [t |-> "num", s |-> <<>>, l |-> <<>>, n |-> k]

\* marks a key left out when a dict is built (never a value of a dict)
Absent == [t |-> "absent", s |-> <<>>, l |-> <<>>, n |-> 0]

Range(f) == {f[i] : i \in DOMAIN f}

\* dict.get(k): None when the key is absent
Get(d, k) == IF k \in DOMAIN d THEN d[k] ELSE Null

\* the dict holding the keys of r whose value is not Absent
MkDict(r) == [k \in {x \in DOMAIN r : r[x].t # "absent"} |-> r[k]]

Whitespace == {" "}

RECURSIVE LStrip(_)
LStrip(s) ==
    IF s = <<>> THEN s
    ELSE IF Head(s) \in Whitespace THEN LStrip(Tail(s)) ELSE s

RECURSIVE RStrip(_)
RStrip(s) ==
    IF s = <<>> THEN s
    ELSE IF s[Len(s)] \in Whitespace THEN RStrip(SubSeq(s, 1, Len(s) - 1))
    ELSE s

\* str.strip()
Strip(s) == RStrip(LStrip(s))

Digit == <<"0", "1", "2", "3", "4", "5", "6", "7", "8", "9">>

RECURSIVE NatText(_)
NatText(k) ==
    IF k < 10 THEN <<Digit[k + 1]>>
    ELSE NatText(k \div 10) \o <<Digit[(k % 10) + 1]>>

\* str(x) of a value that is neither None, a list nor a str (a number)
PyStr(x) == IF x.n < 0 THEN <<"-">> \o NatText(-x.n) ELSE NatText(x.n)

\* [f(v) for v in xs if f(v)], f = str(v).strip()
RECURSIVE StripKeep(_)
StripKeep(xs) ==
    IF xs = <<>> THEN <<>>
    ELSE LET v == Strip(Head(xs))
         IN  (IF v # <<>> THEN <<v>> ELSE <<>>) \o StripKeep(Tail(xs))

(***************************************************************************)
(* similarity.py: normalisation and the facet predicates.                  *)
(***************************************************************************)
_as_list(x) ==
    CASE x.t = "null" -> <<>>
      [] x.t = "list" -> StripKeep(x.l)
      [] x.t = "str"  -> StripKeep(<<x.s>>)
      [] OTHER        -> StripKeep(<<PyStr(x)>>)

\* _matches_multi_select with AND within a facet: every selected tag must be
\* on the song
MatchesMultiSelectAll(song_val, selected) ==
    \/ selected = <<>>
    \/ /\ Range(StripKeep(selected)) # {}
       /\ Range(StripKeep(selected)) \subseteq Range(_as_list(song_val))

_matches_multi_select(song_val, selected) ==
    IF selected = <<>> THEN TRUE
    ELSE LET song_tags == Range(_as_list(song_val))
             selected_set == Range(StripKeep(selected))
         IN  Cardinality(song_tags \cap selected_set) > 0

\* _matches_single with the selection trimmed before the test, as
\* facets.filter_songs trims it
MatchesSingleTrimmed(song_val, selected) ==
    \/ selected.t = "null"
    \/ Strip(selected.s) = <<>>
    \/ Strip(selected.s) \in Range(_as_list(song_val))

\* selected: JSON null or str
_matches_single(song_val, selected) ==
    IF selected.t = "null" \/ (selected.t = "str" /\ selected.s = <<>>)
    THEN TRUE
    ELSE LET song_tags == Range(_as_list(song_val))
         IN  selected.s \in song_tags

\* filters.get(k, []) or []
SelectedList(d, k) ==
    LET v == Get(d, k) IN IF v.t = "list" THEN v.l ELSE <<>>

\* the loop body's test as an elif chain: only the first constrained facet is
\* tested
KeepsFirstConstrained(s, d) ==
    IF SelectedList(d, "mood") # <<>>
    THEN _matches_multi_select(Get(s, "mood"), SelectedList(d, "mood"))
    ELSE IF SelectedList(d, "activity") # <<>>
    THEN _matches_multi_select(Get(s, "activity"), SelectedList(d, "activity"))
    ELSE IF SelectedList(d, "genre") # <<>>
    THEN _matches_multi_select(Get(s, "genre"), SelectedList(d, "genre"))
    ELSE _matches_single(Get(s, "energy"), Get(d, "energy"))

\* the loop body's test for the song s
Keeps(s, d) ==
    /\ _matches_multi_select(Get(s, "mood"), SelectedList(d, "mood"))
    /\ _matches_multi_select(Get(s, "activity"), SelectedList(d, "activity"))
    /\ _matches_multi_select(Get(s, "genre"), SelectedList(d, "genre"))
    /\ _matches_single(Get(s, "energy"), Get(d, "energy"))

\* the loop with keep.insert(0, i) in place of keep.append(i)
RECURSIVE KeepFromPrepending(_, _, _)
KeepFromPrepending(ss, d, i) ==
    IF i > Len(ss) THEN <<>>
    ELSE KeepFromPrepending(ss, d, i + 1)
         \o (IF Keeps(ss[i], d) THEN <<i - 1>> ELSE <<>>)

\* the loop over enumerate(songs) from position i (1-based) on
RECURSIVE KeepFrom(_, _, _)
KeepFrom(ss, d, i) ==
    IF i > Len(ss) THEN <<>>
    ELSE (IF Keeps(ss[i], d) THEN <<i - 1>> ELSE <<>>) \o KeepFrom(ss, d, i + 1)

\* list(range(n))
RangeList(n) == [i \in 1..n |-> i - 1]

filter_song_indices(ss, f) ==
    IF f.t = "none" \/ DOMAIN f.d = {} THEN RangeList(Len(ss))
    ELSE KeepFrom(ss, f.d, 1)

(***************************************************************************)
(* Texts used as inputs.                                                   *)
(***************************************************************************)
calm == <<"c", "a", "l", "m">>

energetic == <<"e", "n", "e", "r", "g", "e", "t", "i", "c">>

sad == <<"s", "a", "d">>

pop == <<"p", "o", "p">>

rock == <<"r", "o", "c", "k">>

study == <<"s", "t", "u", "d", "y">>

high == <<"h", "i", "g", "h">>

High == <<"H", "i", "g", "h">>

low == <<"l", "o", "w">>

Pad(s) == <<" ">> \o s \o <<" ">>

(***************************************************************************)
(* Song lists of the filter specification: every list of 1..MaxItems songs *)
(* over FilterPool.  A, B, C are the songs of the 3-item scenario; D, E, F *)
(* carry the source representations _as_list normalises (a bare str, a     *)
(* padded tag, a blank tag, a list for energy, a number, absent keys).     *)
(***************************************************************************)
SongA ==
    [title |-> Str(<<"A">>), mood |-> List(<<calm>>), genre |-> List(<<pop>>),
     energy |-> Str(high)]

SongB ==
    [title |-> Str(<<"B">>), mood |-> List(<<energetic>>),
     genre |-> List(<<pop>>), energy |-> Str(low)]

SongC ==
    [title |-> Str(<<"C">>), mood |-> List(<<calm>>), genre |-> List(<<rock>>),
     energy |-> Str(Pad(high))]

SongD ==
    [title |-> Str(<<"D">>), mood |-> Str(Pad(calm)),
     genre |-> List(<<rock, <<" ">>, pop>>), activity |-> List(<<study>>),
     energy |-> Str(High)]

SongE ==
    [title |-> Str(<<"E">>), mood |-> List(<<energetic, calm>>),
     activity |-> Str(study), energy |-> List(<<high, low>>), score |-> Num(7)]

SongF ==
    [title |-> Str(<<"F">>), mood |-> Null, energy |-> Num(5)]

FilterPool == {SongA, SongB, SongC, SongD, SongE, SongF}

SeqsUpTo(S, n) == UNION {[1..m -> S] : m \in 1..n}

(***************************************************************************)
(* Filter specs: None, {} and every dict built from one selection (or no   *)
(* key) per facet.                                                         *)
(***************************************************************************)
MoodSels ==
    {Absent, List(<<>>), List(<<calm>>), List(<<Pad(calm)>>),
     List(<<calm, energetic>>), List(<< <<" ">> >>)}

ActivitySels == {Absent, List(<<study>>)}

GenreSels == {Absent, Null, List(<<pop>>), List(<<rock, sad>>)}

EnergySels ==
    {Absent, Null, Str(<<>>), Str(high), Str(Pad(high)), Str(low), Str(<<"5">>)}

NoFilters == [t |-> "none", d |-> <<>>]

Dict(d) == [t |-> "dict", d |-> d]

FilterSpecs ==
    {NoFilters} \cup
    {Dict(MkDict([mood |-> m, activity |-> a, genre |-> g, energy |-> e])) :
        m \in MoodSels, a \in ActivitySels, g \in GenreSels, e \in EnergySels}

(***************************************************************************)
(* The state before any call, and the two entry points.                    *)
(***************************************************************************)
NoVectors == [exists |-> FALSE, ndim |-> 0, rows |-> <<>>]

Idle ==
    /\ pc = "idle"
    /\ call = "none"
    /\ filters = NoFilters
    /\ query = Null
    /\ top_k = 0
    /\ outcome = "none"
    /\ error = ""
    /\ keep_idx = <<>>
    /\ ranked = <<>>
    /\ results = <<>>
    /\ trace = <<>>
    /\ facet_options = <<>>
    /\ kept_songs = <<>>

InitFilter ==
    /\ songs \in SeqsUpTo(FilterPool, MaxItems)
    /\ song_vectors = NoVectors
    /\ Idle

\* a call of filter_song_indices(songs, filters=f)
FilterSongIndicesCall ==
    /\ pc = "idle"
    /\ \E f \in FilterSpecs :
          /\ filters' = f
          /\ keep_idx' = filter_song_indices(songs, f)
    /\ pc' = "done"
    /\ call' = "filter_song_indices"
    /\ outcome' = "return"
    /\ UNCHANGED <<songs, song_vectors, query, top_k, error, ranked, results,
                   trace, facet_options, kept_songs>>

\* the caller takes the value; the next call starts from a fresh frame
Finish ==
    /\ pc = "done"
    /\ pc' = "idle"
    /\ call' = "none"
    /\ filters' = NoFilters
    /\ query' = Null
    /\ top_k' = 0
    /\ outcome' = "none"
    /\ error' = ""
    /\ keep_idx' = <<>>
    /\ ranked' = <<>>
    /\ results' = <<>>
    /\ trace' = <<>>
    /\ facet_options' = <<>>
    /\ kept_songs' = <<>>
    /\ UNCHANGED <<songs, song_vectors>>

NextFilter == FilterSongIndicesCall \/ Finish

SpecFilter == InitFilter /\ [][NextFilter]_vars

(***************************************************************************)
(* similarity.py: semantic_search.  A vector is a tuple of integers in     *)
(* fixed point: the unit vectors of the store and of the query encoder are *)
(* scaled by 5 (so (3, 4) stands for (0.6, 0.8)) and a score, the dot      *)
(* product, by 25.                                                         *)
(***************************************************************************)
Min(a, b) == IF a <= b THEN a ELSE b

Max(a, b) == IF a >= b THEN a ELSE b

\* _ensure_top_k with a non-positive top_k meaning "all of them"
EnsureTopKAll(k, n_items) == IF k <= 0 THEN n_items ELSE Min(k, n_items)

_ensure_top_k(k, n_items) == IF k <= 0 THEN 5 ELSE Min(k, n_items)

\* xs[:k]
SliceTo(xs, k) ==
    IF k >= 0 THEN SubSeq(xs, 1, Min(k, Len(xs)))
    ELSE SubSeq(xs, 1, Max(Len(xs) + k, 0))

\* xs[::-1]
Reverse(xs) == [i \in 1..Len(xs) |-> xs[Len(xs) + 1 - i]]

RECURSIVE DotFrom(_, _, _)
DotFrom(u, v, i) ==
    IF i > Len(u) THEN 0 ELSE u[i] * v[i] + DotFrom(u, v, i + 1)

\* u @ v
Dot(u, v) == DotFrom(u, v, 1)

dreamy == <<"d", "r", "e", "a", "m", "y">>

walking == <<"w", "a", "l", "k", "i", "n", "g">>

\* model.encode([text], normalize_embeddings=True)[0]: the external encoder,
\* a fixed function from text to unit vector
Encode(text) == IF text = dreamy THEN <<5, 0>> ELSE <<3, 4>>

\* (query or "").strip()
QueryStr(q) == Strip(IF q.t = "str" THEN q.s ELSE <<>>)

\* subset_vecs @ query_vec, subset_vecs = song_vectors[keep_idx]
SubsetScores(rows, keep, query_vec) ==
    [j \in 1..Len(keep) |-> Dot(rows[keep[j] + 1], query_vec)]

\* the orders of the positions S (0-based) that are ascending by score
RECURSIVE AscendingOrders(_, _)
AscendingOrders(sc, S) ==
    IF S = {} THEN {<<>>}
    ELSE LET least == {j \in S : \A x \in S : sc[j + 1] <= sc[x + 1]}
         IN  UNION {{<<j>> \o rest : rest \in AscendingOrders(sc, S \ {j})} :
                       j \in least}

\* np.argsort(sc) with the default kind (quicksort, not stable): every
\* ascending order of the positions; equal scores come in any order
Argsort(sc) == AscendingOrders(sc, 0..(Len(sc) - 1))

\* subset_top without the [::-1]
TopOfAscending(order, k) == SliceTo(order, k)

\* order[::-1][:top_k]
SubsetTop(order, k) == SliceTo(Reverse(order), k)

\* {"score": score, **song}: a key of the song named score overrides
Scored(song, score) == song @@ ("score" :> Num(score))

\* the test with the empty filtered set never short-circuited
NoShortCircuit(keep) == Len(keep) < 0

\* len(keep_idx) == 0
NoCandidates(keep) == Len(keep) = 0

\* the test with > for !=: only a store with too few rows is reported
TooFewRows(ss, sv) == Len(ss) > Len(sv.rows)

\* len(songs) != song_vectors.shape[0]
Mismatch(ss, sv) == Len(ss) # Len(sv.rows)

Returned(keep, picked, recs, steps) ==
    [outcome |-> "return", error |-> "", keep_idx |-> keep,
     ranked |-> picked, results |-> recs, trace |-> steps]

Raised(keep, err, steps) ==
    [outcome |-> "raise", error |-> err, keep_idx |-> keep,
     ranked |-> <<>>, results |-> <<>>, trace |-> steps]

\* tag-only mode: [songs[i] for i in keep_idx[:top_k]]
Browse(ss, keep, k) ==
    LET top == _ensure_top_k(k, Len(keep))
        shown == SliceTo(keep, top)
    IN  [j \in 1..Len(shown) |-> ss[shown[j] + 1]]

\* semantic mode after the checks: one outcome per order argsort may return
Rank(ss, sv, keep, query_str, k, steps) ==
    LET top == _ensure_top_k(k, Len(keep))
        query_vec == Encode(query_str)
        subset_scores == SubsetScores(sv.rows, keep, query_vec)
    IN  {LET subset_top == SubsetTop(order, top)
             picked == [j \in 1..Len(subset_top) |-> keep[subset_top[j] + 1]]
         IN  Returned(keep, picked,
                      [j \in 1..Len(subset_top) |->
                          Scored(ss[picked[j] + 1],
                                 subset_scores[subset_top[j] + 1])],
                      steps \o <<"encode", "rank">>) :
            order \in Argsort(subset_scores)}

\* every way a call semantic_search(q, k, filters=f) can end, with
\* songs.json holding ss and song_vectors.npy holding sv
semantic_search(ss, sv, q, k, f) ==
    LET keep == filter_song_indices(ss, f)
        query_str == QueryStr(q)
        filtered == <<"load_songs", "filter_song_indices">>
        loaded == filtered \o <<"load_vectors">>
    IN  IF NoCandidates(keep) THEN {Returned(keep, <<>>, <<>>, filtered)}
        ELSE IF query_str = <<>>
        THEN {Returned(keep, <<>>, Browse(ss, keep, k), filtered)}
        ELSE IF ~sv.exists THEN {Raised(keep, "FileNotFoundError", loaded)}
        ELSE IF sv.ndim # 2
        THEN {Raised(keep, "ValueError: Expected a 2D array", loaded)}
        ELSE IF Mismatch(ss, sv)
        THEN {Raised(keep, "ValueError: Mismatch", loaded)}
        ELSE Rank(ss, sv, keep, query_str, k, loaded)

(***************************************************************************)
(* The search specification.  songs.json holds the first n songs of        *)
(* Playlist read cyclically from any of its positions; song_vectors.npy is *)
(* absent, or not 2-D, or holds n - 1, n or n + 1 rows read cyclically     *)
(* from any position of VecCycle (a stale store has another row count).    *)
(***************************************************************************)
Playlist == <<SongA, SongB, SongC, SongE>>

VecCycle == <<<<5, 0>>, <<4, 3>>, <<3, 4>>, <<0, 5>>, <<4, -3>>>>

Cyclic(cycle, n, from) ==
    [i \in 1..n |-> cycle[((i - 1 + from) % Len(cycle)) + 1]]

Stores(n) ==
    {NoVectors, [exists |-> TRUE, ndim |-> 1, rows |-> <<>>]} \cup
    {[exists |-> TRUE, ndim |-> 2, rows |-> Cyclic(VecCycle, m, from)] :
        m \in {n - 1, n, n + 1}, from \in 0..(Len(VecCycle) - 1)}

Queries ==
    {Null, Str(<<>>), Str(<<" ", " ">>), Str(Pad(dreamy)), Str(walking)}

\* top_k of the app's "songs in scope" count
ScopeTopK == 100000

\* top_k of the app's search
AppTopK == 5

TopKs == {-1, 0, 1, 2, AppTopK, ScopeTopK}

SearchFilters ==
    {NoFilters,
     Dict([mood |-> List(<<calm>>)]),
     Dict([mood |-> List(<<calm>>), genre |-> List(<<pop>>)]),
     Dict([mood |-> List(<<sad>>)]),
     Dict([genre |-> List(<<pop>>), energy |-> Str(low)]),
     Dict([mood |-> List(<<>>), genre |-> List(<<>>), activity |-> List(<<>>),
           energy |-> Null])}

Init ==
    /\ \E n \in 1..MaxSongs, from \in 0..(Len(Playlist) - 1) :
          /\ songs = Cyclic(Playlist, n, from)
          /\ song_vectors \in Stores(n)
    /\ Idle

\* a call of semantic_search(q, top_k=k, filters=f)
SemanticSearch ==
    /\ pc = "idle"
    /\ \E q \in Queries, k \in TopKs, f \in SearchFilters :
          \E end \in semantic_search(songs, song_vectors, q, k, f) :
              /\ query' = q
              /\ top_k' = k
              /\ filters' = f
              /\ outcome' = end.outcome
              /\ error' = end.error
              /\ keep_idx' = end.keep_idx
              /\ ranked' = end.ranked
              /\ results' = end.results
              /\ trace' = end.trace
    /\ pc' = "done"
    /\ call' = "semantic_search"
    /\ UNCHANGED <<songs, song_vectors, facet_options, kept_songs>>

Next == SemanticSearch \/ Finish

Spec == Init /\ [][Next]_vars

(***************************************************************************)
(* Claims on filter_song_indices, checked under SpecFilter.                *)
(***************************************************************************)
FilterDone == pc = "done" /\ call = "filter_song_indices"

MultiFacets == {"mood", "activity", "genre"}

\* the tags of a selection: its trimmed non-empty members
SelectionTags(d, k) == {Strip(x) : x \in Range(SelectedList(d, k))} \ {<<>>}

\* the normalized tag set of song i (0-based) in facet k
SongTags(i, k) == Range(_as_list(Get(songs[i + 1], k)))

EnergyGiven(d) == Get(d, "energy").t = "str" /\ Get(d, "energy").s # <<>>

Unconstrained(f) ==
    \/ f.t = "none"
    \/ /\ \A k \in MultiFacets : SelectedList(f.d, k) = <<>>
       /\ ~EnergyGiven(f.d)

\* C1: filter_song_indices returns exactly the indices i such that, for each
\* of mood, activity and genre with a non-empty selection, song i's normalized
\* tag set shares a tag with the selection (OR within a facet), and song i's
\* normalized energy tags hold the energy selection when one is given (AND
\* across the constrained facets); with no constrained facet it returns every
\* index 0..n-1.
C1_FilterContract ==
    FilterDone =>
        /\ Range(keep_idx) =
              {i \in 0..(Len(songs) - 1) :
                  /\ \A k \in MultiFacets :
                        SelectedList(filters.d, k) # <<>> =>
                            SongTags(i, k) \cap SelectionTags(filters.d, k) # {}
                  /\ EnergyGiven(filters.d) =>
                        Get(filters.d, "energy").s \in SongTags(i, "energy")}
        /\ Unconstrained(filters) => keep_idx = RangeList(Len(songs))

\* the 3-item scenario: {mood: [calm], genre: [pop]} keeps A only
C1_Witness ==
    /\ FilterDone
    /\ songs = <<SongA, SongB, SongC>>
    /\ filters = Dict([mood |-> List(<<calm>>), genre |-> List(<<pop>>)])
    /\ keep_idx = <<0>>

LetterUpper ==
    <<"A", "B", "C", "D", "E", "F", "G", "H", "I", "J", "K", "L", "M",
      "N", "O", "P", "Q", "R", "S", "T", "U", "V", "W", "X", "Y", "Z">>

LetterLower ==
    <<"a", "b", "c", "d", "e", "f", "g", "h", "i", "j", "k", "l", "m",
      "n", "o", "p", "q", "r", "s", "t", "u", "v", "w", "x", "y", "z">>

\* str.lower()
Lower(s) ==
    [i \in 1..Len(s) |->
        IF \E j \in 1..Len(LetterUpper) : LetterUpper[j] = s[i]
        THEN LetterLower[CHOOSE j \in 1..Len(LetterUpper) : LetterUpper[j] = s[i]]
        ELSE s[i]]

\* a call whose only constraint is the energy selection
EnergyOnly ==
    /\ FilterDone
    /\ filters.t = "dict"
    /\ EnergyGiven(filters.d)
    /\ \A k \in MultiFacets : SelectedList(filters.d, k) = <<>>

\* C7 as stated: a song passes the energy constraint exactly when its
\* normalized energy value equals the selection after trimming and ignoring
\* letter case on both sides.
C7_CaseInsensitiveTrimmed ==
    EnergyOnly =>
        \A i \in 0..(Len(songs) - 1) :
            i \in Range(keep_idx) <=>
                Lower(Strip(Get(filters.d, "energy").s))
                    \in {Lower(x) : x \in SongTags(i, "energy")}

\* C7 amended: a song passes the energy constraint exactly when the selection,
\* as given (not trimmed, letter case kept), is one of the song's normalized
\* (trimmed, non-empty) energy values.
C7_ExactMembership ==
    EnergyOnly =>
        \A i \in 0..(Len(songs) - 1) :
            i \in Range(keep_idx) <=>
                \E x \in SongTags(i, "energy") : x = Get(filters.d, "energy").s

\* energy " high " selected: the song whose energy is "high" is rejected
C7_Witness ==
    /\ EnergyOnly
    /\ Get(filters.d, "energy").s = Pad(high)
    /\ songs = <<SongA, SongD>>
    /\ keep_idx = <<>>

\* the songs a call kept, in the order returned
Survivors == [j \in 1..Len(keep_idx) |-> songs[keep_idx[j] + 1]]

\* C9: the returned indices are strictly ascending (so duplicate-free), and
\* the same spec applied to the surviving songs keeps every one of them.
C9_OrderPreservingIdempotent ==
    FilterDone =>
        /\ \A a, b \in 1..Len(keep_idx) : a < b => keep_idx[a] < keep_idx[b]
        /\ \A a \in 1..Len(keep_idx) : keep_idx[a] \in 0..(Len(songs) - 1)
        /\ filter_song_indices(Survivors, filters) = RangeList(Len(keep_idx))

\* a constrained call that kept two songs and dropped the one between them
C9_Witness ==
    /\ FilterDone
    /\ songs = <<SongA, SongB, SongC>>
    /\ filters = Dict([mood |-> List(<<calm>>)])
    /\ keep_idx = <<0, 2>>

\* the spec holding only the key k of d
OnlyKey(d, k) == Dict([x \in {k} |-> d[x]])

\* C10: for a spec that constrains two different facets, the set of indices
\* returned equals the intersection of the sets returned for each of its two
\* single-facet specs.
C10_AndIsIntersection ==
    (FilterDone /\ filters.t = "dict") =>
        \A k1, k2 \in DOMAIN filters.d :
            (k1 # k2 /\ DOMAIN filters.d = {k1, k2}) =>
                Range(keep_idx) =
                    Range(filter_song_indices(songs, OnlyKey(filters.d, k1)))
                    \cap
                    Range(filter_song_indices(songs, OnlyKey(filters.d, k2)))

\* mood = [calm] alone keeps A and C, genre = [pop] alone keeps A and B, both
\* keep A
C10_Witness ==
    /\ FilterDone
    /\ songs = <<SongA, SongB, SongC>>
    /\ filters = Dict([mood |-> List(<<calm>>), genre |-> List(<<pop>>)])
    /\ Range(filter_song_indices(songs, OnlyKey(filters.d, "mood"))) = {0, 2}
    /\ Range(filter_song_indices(songs, OnlyKey(filters.d, "genre"))) = {0, 1}
    /\ keep_idx = <<0>>

(***************************************************************************)
(* Claims on semantic_search, checked under Spec.                          *)
(***************************************************************************)
SearchDone == pc = "done" /\ call = "semantic_search"

\* the filtered set of the call's filter spec
Candidates == filter_song_indices(songs, filters)

\* a query that is present: not None, not empty, not only whitespace
HasQuery == query.t = "str" /\ \E i \in 1..Len(query.s) : query.s[i] # " "

SemanticMode == SearchDone /\ HasQuery /\ Candidates # <<>>

\* the vector store is there, 2-D, one row per song
StoreConsistent ==
    /\ song_vectors.exists
    /\ song_vectors.ndim = 2
    /\ Len(song_vectors.rows) = Len(songs)

\* the vector store is there and 2-D, with another row count than the songs
StoreStale ==
    /\ song_vectors.exists
    /\ song_vectors.ndim = 2
    /\ Len(song_vectors.rows) # Len(songs)

\* k' of the claims
KPrime == IF top_k > 0 THEN top_k ELSE 5

\* the similarity of song i (0-based): its stored row times the query vector
Score(i) == Dot(song_vectors.rows[i + 1], Encode(Strip(query.s)))

\* result j carries every attribute of song i unchanged
CarriesSong(j, i) ==
    \A a \in DOMAIN songs[i + 1] :
        a \in DOMAIN results[j] /\ results[j][a] = songs[i + 1][a]

\* C2: in semantic mode over a consistent store the call returns the top k' of
\* the filtered set only: min(k', n) records, each the record of a candidate,
\* no candidate twice, scores non-increasing, and no candidate left out scores
\* strictly higher than a returned one.
C2_TopKOfFilteredSubset ==
    (SemanticMode /\ StoreConsistent) =>
        /\ outcome = "return"
        /\ Len(results) = Min(KPrime, Len(Candidates))
        /\ Len(ranked) = Len(results)
        /\ \A j \in 1..Len(ranked) :
              ranked[j] \in Range(Candidates) /\ CarriesSong(j, ranked[j])
        /\ \A a, b \in 1..Len(ranked) : a # b => ranked[a] # ranked[b]
        /\ \A a, b \in 1..Len(ranked) :
              a < b => Score(ranked[a]) >= Score(ranked[b])
        /\ \A c \in Range(Candidates) \ Range(ranked) :
              \A j \in 1..Len(ranked) : Score(c) <= Score(ranked[j])

\* a constrained filter dropped a song, and of the candidates only the two
\* best were returned
C2_Witness ==
    /\ SemanticMode
    /\ outcome = "return"
    /\ Len(Candidates) < Len(songs)
    /\ top_k = 2
    /\ Len(results) = 2
    /\ \E c \in Range(Candidates) \ Range(ranked) : Score(c) < Score(ranked[2])

\* C3 as stated: of two returned candidates with equal score the one with the
\* smaller corpus index comes first, and of two tied at the cut the smaller
\* index is the one kept.
C3_TiesBySmallerIndex ==
    (SemanticMode /\ outcome = "return") =>
        /\ \A a, b \in 1..Len(ranked) :
              (a < b /\ Score(ranked[a]) = Score(ranked[b])) =>
                  ranked[a] < ranked[b]
        /\ \A c \in Range(Candidates) \ Range(ranked) :
              \A j \in 1..Len(ranked) :
                  Score(c) = Score(ranked[j]) => ranked[j] < c

\* C4 as stated: with a row count that differs from the number of songs, every
\* search call raises the mismatch error, before any filtering.
C4_RaisedBeforeFiltering ==
    (SearchDone /\ StoreStale) =>
        /\ outcome = "raise"
        /\ error = "ValueError: Mismatch"
        /\ "filter_song_indices" \notin Range(trace)

\* C4 amended: with a row count that differs from the number of songs, a call
\* raises the mismatch error exactly when the query is present and the filtered
\* set is non-empty, after filtering and loading the vectors and before the
\* query is encoded or anything is ranked; a call with no query or an empty
\* filtered set returns without reading the vector store.
C4_RaisedInSemanticModeOnly ==
    (SearchDone /\ StoreStale) =>
        IF HasQuery /\ Candidates # <<>>
        THEN /\ outcome = "raise"
             /\ error = "ValueError: Mismatch"
             /\ trace = <<"load_songs", "filter_song_indices", "load_vectors">>
             /\ results = <<>>
        ELSE /\ outcome = "return"
             /\ error = ""
             /\ "load_vectors" \notin Range(trace)

\* a store with one row more than there are songs, a query, two candidates
C4_Witness ==
    /\ SearchDone
    /\ StoreStale
    /\ Len(song_vectors.rows) = Len(songs) + 1
    /\ HasQuery
    /\ Len(Candidates) = 2
    /\ outcome = "raise"

FilterOnlyMode == SearchDone /\ ~HasQuery

C6_EmptyShortCircuit ==
    (SearchDone /\ Candidates = <<>>) =>
        /\ outcome = "return"
        /\ results = <<>>
        /\ "load_vectors" \notin Range(trace)
        /\ "encode" \notin Range(trace)

\* no candidate, though a query is present and the store is consistent
C6_Witness ==
    /\ SearchDone
    /\ Candidates = <<>>
    /\ HasQuery
    /\ StoreConsistent
    /\ outcome = "return"

\* C8 as stated: in semantic mode every result carries every attribute of the
\* ranked song unchanged, and a score that is the dot product of that song's
\* stored vector with the query vector, whatever attributes the song has.
C8_ScoreIsDotProduct ==
    (SemanticMode /\ outcome = "return") =>
        \A j \in 1..Len(results) :
            /\ CarriesSong(j, ranked[j])
            /\ "score" \in DOMAIN results[j]
            /\ results[j]["score"] = Num(Score(ranked[j]))

(***************************************************************************)
(* facets.py, and get_facet_options of similarity.py.                      *)
(***************************************************************************)
\* the characters of the model in ascending code point order
CodePointOrder ==
    <<" ", "'", ",", "-">> \o Digit \o LetterUpper \o <<"[", "]">>
    \o LetterLower

\* the rank of ord(c)
Ord(c) == CHOOSE i \in 1..Len(CodePointOrder) : CodePointOrder[i] = c

\* a < b on str: by code point, a proper prefix first
RECURSIVE StrLess(_, _)
StrLess(a, b) ==
    IF b = <<>> THEN FALSE
    ELSE IF a = <<>> THEN TRUE
    ELSE IF Head(a) = Head(b) THEN StrLess(Tail(a), Tail(b))
    ELSE Ord(Head(a)) < Ord(Head(b))

\* sorted(S) of a set of str
RECURSIVE Sorted(_)
Sorted(S) ==
    IF S = {} THEN <<>>
    ELSE LET least == CHOOSE x \in S : \A y \in S : x = y \/ StrLess(x, y)
         IN  <<least>> \o Sorted(S \ {least})

\* ", ".join(repr(x) for x in xs)
RECURSIVE JoinReprs(_)
JoinReprs(xs) ==
    IF xs = <<>> THEN <<>>
    ELSE <<"'">> \o Head(xs) \o <<"'">>
         \o (IF Len(xs) > 1 THEN <<",", " ">> ELSE <<>>) \o JoinReprs(Tail(xs))

\* str(v) of any JSON value: a list prints as its repr, None as "None"
StrOf(v) ==
    CASE v.t = "str"  -> v.s
      [] v.t = "null" -> <<"N", "o", "n", "e">>
      [] v.t = "list" -> <<"[">> \o JoinReprs(v.l) \o <<"]">>
      [] OTHER        -> PyStr(v)

\* facets._as_list
facets_as_list(value) ==
    CASE value.t = "null" -> <<>>
      [] value.t = "list" -> StripKeep(value.l)
      [] value.t = "str"  -> StripKeep(<<value.s>>)
      [] OTHER            -> <<Strip(PyStr(value))>>

\* str(s.get("energy", "")) with the .strip() left out
SongEnergyUnstripped(s) ==
    IF "energy" \in DOMAIN s THEN StrOf(s["energy"]) ELSE <<>>

\* str(s.get("energy", "")).strip()
SongEnergy(s) ==
    IF "energy" \in DOMAIN s THEN Strip(StrOf(s["energy"])) ELSE <<>>

\* the set a facet's loop builds: every tag of every song
TagsOver(ss, k) == UNION {Range(facets_as_list(Get(s, k))) : s \in Range(ss)}

collect_facet_options(ss) ==
    [mood     |-> Sorted(TagsOver(ss, "mood")),
     activity |-> Sorted(TagsOver(ss, "activity")),
     energy   |-> Sorted({SongEnergy(s) : s \in Range(ss)} \ {<<>>}),
     genre    |-> Sorted(TagsOver(ss, "genre"))]

\* similarity.get_facet_options(songs), songs given and non-empty
get_facet_options(ss) ==
    [k \in {"mood", "activity", "genre", "energy"} |->
        Sorted(UNION {Range(_as_list(Get(s, k))) : s \in Range(ss)})]

(***************************************************************************)
(* The facets specification: every list of 1..MaxItems songs over          *)
(* FacetPool.  G gives energy as a list of one, H has no energy key.       *)
(***************************************************************************)
SongG ==
    [title |-> Str(<<"G">>), mood |-> Str(calm), genre |-> Str(Pad(pop)),
     energy |-> List(<<high>>)]

SongH ==
    [title |-> Str(<<"H">>), mood |-> Null, genre |-> List(<<rock>>),
     activity |-> Str(study)]

FacetPool == {SongA, SongB, SongC, SongD, SongG, SongH}

InitFacets ==
    /\ songs \in SeqsUpTo(FacetPool, MaxItems)
    /\ song_vectors = NoVectors
    /\ Idle

\* a call of facets.collect_facet_options(songs)
CollectFacetOptionsCall ==
    /\ pc = "idle"
    /\ pc' = "done"
    /\ call' = "collect_facet_options"
    /\ outcome' = "return"
    /\ facet_options' = collect_facet_options(songs)
    /\ UNCHANGED <<songs, song_vectors, filters, query, top_k, error,
                   keep_idx, ranked, results, trace, kept_songs>>

\* a call of similarity.get_facet_options(songs)
GetFacetOptionsCall ==
    /\ pc = "idle"
    /\ pc' = "done"
    /\ call' = "get_facet_options"
    /\ outcome' = "return"
    /\ facet_options' = get_facet_options(songs)
    /\ UNCHANGED <<songs, song_vectors, filters, query, top_k, error,
                   keep_idx, ranked, results, trace, kept_songs>>

\* facets._matches_any
_matches_any(song_values, selected) ==
    IF selected = <<>> THEN TRUE
    ELSE LET sv == Range(song_values)
         IN  \E i \in 1..Len(selected) : selected[i] \in sv

\* (energy or "").strip()
SelectedEnergy(d) ==
    LET v == Get(d, "energy") IN IF v.t = "str" THEN Strip(v.s) ELSE <<>>

\* the loop body's test of filter_songs for the song s; d holds the keyword
\* arguments mood, activity, energy, genre that were passed
FacetsKeeps(s, d) ==
    /\ _matches_any(facets_as_list(Get(s, "mood")), SelectedList(d, "mood"))
    /\ _matches_any(facets_as_list(Get(s, "activity")),
                    SelectedList(d, "activity"))
    /\ _matches_any(facets_as_list(Get(s, "genre")), SelectedList(d, "genre"))
    /\ ~(SelectedEnergy(d) # <<>> /\ SongEnergy(s) # SelectedEnergy(d))

RECURSIVE FilteredFrom(_, _, _)
FilteredFrom(ss, d, i) ==
    IF i > Len(ss) THEN <<>>
    ELSE (IF FacetsKeeps(ss[i], d) THEN <<ss[i]>> ELSE <<>>)
         \o FilteredFrom(ss, d, i + 1)

filter_songs(ss, d) == FilteredFrom(ss, d, 1)

FacetMoodSels ==
    {Absent, List(<<>>), List(<<calm>>), List(<<Pad(calm)>>),
     List(<<calm, energetic>>), List(<< <<>> >>)}

FacetGenreSels == {Absent, List(<<pop>>), List(<<rock, sad>>)}

FacetEnergySels ==
    {Absent, Str(<<>>), Str(high), Str(Pad(high)), Str(low), Str(High)}

\* the selections passed to filter_songs, as the dict of its keyword arguments
FacetSpecs ==
    {Dict(MkDict([mood |-> m, activity |-> a, genre |-> g, energy |-> e])) :
        m \in FacetMoodSels, a \in ActivitySels, g \in FacetGenreSels,
        e \in FacetEnergySels}

\* a call of facets.filter_songs(songs, **f.d)
FilterSongsCall ==
    /\ pc = "idle"
    /\ \E f \in FacetSpecs :
          /\ filters' = f
          /\ kept_songs' = filter_songs(songs, f.d)
    /\ pc' = "done"
    /\ call' = "filter_songs"
    /\ outcome' = "return"
    /\ UNCHANGED <<songs, song_vectors, query, top_k, error, keep_idx, ranked,
                   results, trace, facet_options>>

NextFacets ==
    CollectFacetOptionsCall \/ GetFacetOptionsCall \/ FilterSongsCall \/ Finish

SpecFacets == InitFacets /\ [][NextFacets]_vars

(***************************************************************************)
(* Claims on the facet helpers, checked under SpecFacets.                  *)
(***************************************************************************)
FacetNames == {"mood", "activity", "genre", "energy"}

\* the trimmed non-empty values that occur in facet k over all songs, a value
\* given as a str counting like the same value in a list
ValuesOccurring(k) ==
    UNION {Range(_as_list(Get(songs[i], k))) : i \in 1..Len(songs)}

\* opts is strictly ascending (so duplicate-free) and lists exactly S
AscendingListOf(opts, S) ==
    /\ \A a, b \in 1..Len(opts) : a < b => StrLess(opts[a], opts[b])
    /\ Range(opts) = S

\* C11 as stated: collect_facet_options returns, for each of mood, activity,
\* genre and energy, the ascending duplicate-free list of exactly the trimmed
\* non-empty values occurring in that facet, a value given as a str and the
\* same value given in a list (energy as a list of one too) contributing the
\* same option.
C11_CollectSortedDistinct ==
    (pc = "done" /\ call = "collect_facet_options") =>
        \A k \in FacetNames :
            AscendingListOf(facet_options[k], ValuesOccurring(k))

\* the same statement of similarity.get_facet_options, which holds
C11_GetFacetOptionsSortedDistinct ==
    (pc = "done" /\ call = "get_facet_options") =>
        \A k \in FacetNames :
            AscendingListOf(facet_options[k], ValuesOccurring(k))

\* every song's energy is a single str or absent
WellFormedSongs ==
    \A i \in 1..Len(songs) :
        "energy" \in DOMAIN songs[i] => songs[i]["energy"].t = "str"

\* every selected value is an already-trimmed str
TrimmedSelection ==
    /\ \A k \in MultiFacets :
          \A x \in Range(SelectedList(filters.d, k)) : Strip(x) = x
    /\ Get(filters.d, "energy").t = "str" =>
          Strip(Get(filters.d, "energy").s) = Get(filters.d, "energy").s

\* C12: on well-formed songs and already-trimmed selections, facets.filter_songs
\* keeps exactly the songs whose indices similarity.filter_song_indices
\* returns for the same selections, in the same order.
C12_FilterImplementationsAgree ==
    (pc = "done" /\ call = "filter_songs" /\ WellFormedSongs
        /\ TrimmedSelection) =>
        LET idx == filter_song_indices(songs, filters)
        IN  kept_songs = [j \in 1..Len(idx) |-> songs[idx[j] + 1]]

\* mood [calm] and energy "high" over C (energy " high "), H (no energy) and A:
\* both keep C and A
C12_Witness ==
    /\ pc = "done"
    /\ call = "filter_songs"
    /\ songs = <<SongC, SongH, SongA>>
    /\ filters = Dict([mood |-> List(<<calm>>), energy |-> Str(high)])
    /\ filter_song_indices(songs, filters) = <<0, 2>>
    /\ kept_songs = <<SongC, SongA>>

====
